---------------------------- MODULE Spec2Model ----------------------------
(***************************************************************************)
(* A model of NucleusResourceAPI (src/library/ResourceAPI.nucleus.js):     *)
(* the resource lifecycle (create / retrieve / update / remove), the       *)
(* hierarchy authorization (verifyThatUserCan...Resource) and the two      *)
(* hierarchy walks (walkHierarchyTreeUpward / walkHierarchyTreeDownward).  *)
(*                                                                         *)
(* The specifications share the variables:                                 *)
(*   Spec      the lifecycle handlers, one call after the other;           *)
(*   AuthSpec  the two authorization functions over every small forest;    *)
(*   WalkSpec  one hierarchy walk, one step per store read that answers    *)
(*             (WalkFairSpec: the same, every store read answers;          *)
(*             TreeWalkSpec: the same, on larger trees);                   *)
(*   ConcSpec  two lifecycle calls in flight together, one step per store  *)
(*             call that answers, store calls that reject included.        *)
(***************************************************************************)
EXTENDS Integers, Sequences, FiniteSets, TLC

VARIABLES
  datastore,                      \* $datastore is configured
  resourceRelationshipDatastore,  \* $resourceRelationshipDatastore is configured
  edges,                          \* RelationshipStore: set of <<subject, predicate, object>>
  records,                        \* ResourceStore: item key -> stored hash (field -> value)
  index,                          \* ResourceStore: the ResourceIDByType sets, type -> set of IDs
  now,                            \* the wall clock read by new Date()
  usedIDs,                        \* the IDs uuid has handed out
  result,                         \* what the last lifecycle call returned or threw
  authz,                          \* what the last verifyThatUserCan... call returned
  walk,                           \* the arguments of the walk in progress
  nodeIDList,                     \* the walk's nodeIDList
  pending,                        \* the walk's store reads in flight: node -> how many
  reads,                          \* how many store reads of the walk have answered
  resolved,                       \* the walk's promise has resolved with nodeIDList
  calls,                          \* the lifecycle calls in flight: call -> its locals
  faults,                         \* how many store calls have rejected
  lastWriter                      \* the call whose record write landed last

vars == << datastore, resourceRelationshipDatastore, edges, records, index, now,
           usedIDs, result, authz, walk, nodeIDList, pending, reads, resolved,
           calls, faults, lastWriter >>

storeVars == << datastore, resourceRelationshipDatastore, edges, records, index,
                now, usedIDs, result >>
walkVars == << walk, nodeIDList, pending, reads, resolved >>
callVars == << calls, faults, lastWriter >>

-----------------------------------------------------------------------------
(* The fixed vocabulary and the values of the model.                       *)

SYSTEM == "SYSTEM"
IsMember == "is-member"
IsAuthored == "is-authored"
RESOURCE_ID_BY_TYPE_TABLE_NAME == "ResourceIDByType"

\* JavaScript's undefined (A[0] of an empty list, an argument left out).
Undefined == "undefined"
\* depth = Infinity, the default of both walks.
Infinity == -1

Orgs == {"orgA", "orgB"}
Users == {"userU", "userV"}
ResourceIDs == {"r1"}

\* The order in which the model's stores list node IDs.
NodeOrder == << "SYSTEM", "orgA", "orgB", "userU", "userV", "r1", "r2", "r3" >>

Range(s) == { s[i] : i \in DOMAIN s }

\* The list the store answers for a set of node IDs.
ListOf(S) == SelectSeq(NodeOrder, LAMBDA n : n \in S)

\* Every order in which a store may list the set S.
ListsOf(S) ==
  { l \in [1..Cardinality(S) -> S] : \A i, j \in 1..Cardinality(S) : l[i] = l[j] => i = j }

-----------------------------------------------------------------------------
(* RelationshipStore (an external collaborator of this file).              *)

retrieveObjectOfRelationshipWithSubject(subject, predicate) ==
  { e[3] : e \in { t \in edges : t[1] = subject /\ t[2] = predicate } }

retrieveSubjectOfRelationshipWithObject(object, predicate) ==
  { e[1] : e \in { t \in edges : t[3] = object /\ t[2] = predicate } }

createRelationshipBetweenSubjectAndObject(E, subject, predicate, object) ==
  E \cup { << subject, predicate, object >> }

removeAllRelationshipsToVector(E, vector) ==
  { t \in E : t[1] # vector /\ t[3] # vector }

-----------------------------------------------------------------------------
(* The hierarchy walks.                                                     *)

\* Mutant of DepthReached: the walk goes on until the list is two nodes longer
\* than depth.
DepthReachedTwoLater(length, depth) == depth # Infinity /\ length >= depth + 2

\* nodeIDList.length >= depth
DepthReached(length, depth) == depth # Infinity /\ length >= depth

\* list.forEach(nodeID => { if (!~nodeIDList.indexOf(nodeID)) nodeIDList.push(nodeID) })
RECURSIVE PushEach(_, _)
PushEach(list, answer) ==
  IF answer = << >> THEN list
  ELSE PushEach(IF Head(answer) \in Range(list) THEN list ELSE Append(list, Head(answer)),
                Tail(answer))

\* Mutant of retrieveAncestorForResourceByID: every ancestor is pushed, also one
\* that nodeIDList holds already.
retrieveAncestorWithoutIndexOf(resourceID, list, depth, ancestorNodeIDList) ==
  IF Len(ancestorNodeIDList) = 0 \/ SYSTEM \in Range(ancestorNodeIDList)
  THEN [nodeIDList |-> list, next |-> << >>]
  ELSE LET pushed == list \o ancestorNodeIDList
       IN  IF DepthReached(Len(pushed), depth)
           THEN [nodeIDList |-> pushed, next |-> << >>]
           ELSE [nodeIDList |-> pushed, next |-> ancestorNodeIDList]

\* Mutant of retrieveChildrenForResourceByID: the recursion is mapped over the
\* children but reads the node it was called for again.
retrieveChildrenOfSameNode(resourceID, list, depth, childrenNodeIDList) ==
  IF Len(childrenNodeIDList) = 0 \/ SYSTEM \in Range(childrenNodeIDList)
  THEN [nodeIDList |-> list, next |-> << >>]
  ELSE LET pushed == PushEach(list, childrenNodeIDList)
       IN  IF DepthReached(Len(pushed), depth)
           THEN [nodeIDList |-> pushed, next |-> << >>]
           ELSE [nodeIDList |-> pushed,
                 next |-> [i \in DOMAIN childrenNodeIDList |-> resourceID]]

\* walkHierarchyTreeUpward's retrieveAncestorForResourceByID(resourceID), from
\* the store's answer ancestorNodeIDList on: the new nodeIDList and the nodes
\* whose parents are read next.
retrieveAncestorForResourceByID(resourceID, list, depth, ancestorNodeIDList) ==
  IF Len(ancestorNodeIDList) = 0 \/ SYSTEM \in Range(ancestorNodeIDList)
  THEN [nodeIDList |-> list, next |-> << >>]
  ELSE LET pushed == PushEach(list, ancestorNodeIDList)
       IN  IF DepthReached(Len(pushed), depth)
           THEN [nodeIDList |-> pushed, next |-> << >>]
           ELSE [nodeIDList |-> pushed, next |-> ancestorNodeIDList]

\* walkHierarchyTreeDownward's retrieveAncestorForResourceByID(resourceID), from
\* the store's answer childrenNodeIDList on.
retrieveChildrenForResourceByID(resourceID, list, depth, childrenNodeIDList) ==
  IF Len(childrenNodeIDList) = 0 \/ SYSTEM \in Range(childrenNodeIDList)
  THEN [nodeIDList |-> list, next |-> << >>]
  ELSE LET pushed == PushEach(list, childrenNodeIDList)
       IN  IF DepthReached(Len(pushed), depth)
           THEN [nodeIDList |-> pushed, next |-> << >>]
           ELSE [nodeIDList |-> pushed, next |-> childrenNodeIDList]

\* The store read a walk issues for one node.
WalkRead(direction, nodeID) ==
  IF direction = "up"
  THEN retrieveObjectOfRelationshipWithSubject(nodeID, IsMember)
  ELSE retrieveSubjectOfRelationshipWithObject(nodeID, IsMember)

WalkContinue(direction, nodeID, list, depth, answer) ==
  IF direction = "up"
  THEN retrieveAncestorForResourceByID(nodeID, list, depth, answer)
  ELSE retrieveChildrenForResourceByID(nodeID, list, depth, answer)

\* A whole walk whose store reads answer in the order they were issued.
RECURSIVE WalkInOrder(_, _, _, _)
WalkInOrder(direction, queue, list, depth) ==
  IF queue = << >> THEN list
  ELSE LET step == WalkContinue(direction, Head(queue), list, depth,
                                ListOf(WalkRead(direction, Head(queue))))
       IN  WalkInOrder(direction, Tail(queue) \o step.next, step.nodeIDList, depth)

walkHierarchyTreeUpward(resourceID, depth) ==
  WalkInOrder("up", << resourceID >>, << >>, depth)

walkHierarchyTreeDownward(resourceID, depth) ==
  IF ~resourceRelationshipDatastore THEN << >>
  ELSE WalkInOrder("down", << resourceID >>, << >>, depth)

\* list[0]
First(list) == IF Len(list) = 0 THEN Undefined ELSE list[1]

-----------------------------------------------------------------------------
(* The authorization functions: the value of canRetrieveResource and of    *)
(* canUpdateResource.                                                       *)

\* Mutant of verifyThatUserCanRetrieveResource: the user's ancestors are left
\* out of the list that is intersected (only the parent's descendants count).
verifyRetrieveWithoutAncestors(userID, resourceID) ==
  IF ~resourceRelationshipDatastore THEN TRUE
  ELSE LET userAncestorNodeIDList == walkHierarchyTreeUpward(userID, Infinity)
           userDirectAncestorChildrenNodeIDList ==
             walkHierarchyTreeDownward(First(userAncestorNodeIDList), Infinity)
           resourceAncestorNodeIDList == walkHierarchyTreeUpward(resourceID, Infinity)
           nodeIDIntersectionList ==
             SelectSeq(userDirectAncestorChildrenNodeIDList,
                       LAMBDA nodeID : nodeID \in Range(resourceAncestorNodeIDList))
       IN  Len(nodeIDIntersectionList) # 0

verifyThatUserCanRetrieveResource(userID, resourceID) ==
  IF ~resourceRelationshipDatastore THEN TRUE
  ELSE LET userAncestorNodeIDList == walkHierarchyTreeUpward(userID, Infinity)
           userDirectAncestorChildrenNodeIDList ==
             walkHierarchyTreeDownward(First(userAncestorNodeIDList), Infinity)
           resourceAncestorNodeIDList == walkHierarchyTreeUpward(resourceID, Infinity)
           nodeIDIntersectionList ==
             SelectSeq(userAncestorNodeIDList \o userDirectAncestorChildrenNodeIDList,
                       LAMBDA nodeID : nodeID \in Range(resourceAncestorNodeIDList))
       IN  Len(nodeIDIntersectionList) # 0

\* Mutant of verifyThatUserCanUpdateResource: the user's whole ancestor chain is
\* used where the code reads the direct parents only.
verifyUpdateWithAncestorChain(userID, resourceID) ==
  IF ~resourceRelationshipDatastore THEN TRUE
  ELSE LET userDirectAncestorNodeIDList == walkHierarchyTreeUpward(userID, Infinity)
           userDirectAncestorChildrenNodeIDList ==
             walkHierarchyTreeDownward(First(userDirectAncestorNodeIDList), Infinity)
           resourceAncestorNodeIDList == walkHierarchyTreeUpward(resourceID, Infinity)
           nodeIDIntersectionList ==
             SelectSeq(userDirectAncestorNodeIDList \o userDirectAncestorChildrenNodeIDList,
                       LAMBDA nodeID : nodeID \in Range(resourceAncestorNodeIDList))
       IN  Len(nodeIDIntersectionList) # 0

verifyThatUserCanUpdateResource(userID, resourceID) ==
  IF ~resourceRelationshipDatastore THEN TRUE
  ELSE LET userDirectAncestorNodeIDList ==
             ListOf(retrieveObjectOfRelationshipWithSubject(userID, IsMember))
           userDirectAncestorChildrenNodeIDList ==
             walkHierarchyTreeDownward(First(userDirectAncestorNodeIDList), Infinity)
           resourceAncestorNodeIDList == walkHierarchyTreeUpward(resourceID, Infinity)
           nodeIDIntersectionList ==
             SelectSeq(userDirectAncestorNodeIDList \o userDirectAncestorChildrenNodeIDList,
                       LAMBDA nodeID : nodeID \in Range(resourceAncestorNodeIDList))
       IN  Len(nodeIDIntersectionList) # 0

-----------------------------------------------------------------------------
(* Values every specification starts from.                                  *)

NoResult == [op |-> "none", kind |-> "none", resourceType |-> "none",
             resourceID |-> Undefined, originUserID |-> Undefined,
             resource |-> << >>, resourceMemberNodeID |-> Undefined,
             parentNodeID |-> Undefined, sent |-> << >>]
NoAuthz == [fn |-> "none", userID |-> Undefined, resourceID |-> Undefined,
            allowed |-> FALSE]
NoWalk == [direction |-> "none", resourceID |-> Undefined, depth |-> Infinity]

IdleWalk ==
  /\ walk = NoWalk
  /\ nodeIDList = << >>
  /\ pending = << >>
  /\ reads = 0
  /\ resolved = FALSE

\* The lifecycle calls that can be in flight together.
Calls == {"c1", "c2"}

\* The store calls of one lifecycle call, each none, pending, ok or failed:
\* the read it awaits, the record write, the type-index write, the two edge
\* writes, the record deletion and the edge cleanup.
NoIO == [read |-> "none", record |-> "none", index |-> "none", member |-> "none",
         authored |-> "none", remove |-> "none", cleanup |-> "none"]

\* A call that was not made yet.
NoCall == [op |-> "none", pc |-> "idle", kind |-> "none", resourceType |-> "none",
           resourceID |-> Undefined, originUserID |-> Undefined, sent |-> << >>,
           memberNodeID |-> Undefined, resource |-> << >>, fields |-> << >>,
           io |-> NoIO, issued |-> << >>]
NoWriter == "none"

IdleCalls ==
  /\ calls = [c \in Calls |-> NoCall]
  /\ faults = 0
  /\ lastWriter = NoWriter

-----------------------------------------------------------------------------
(* AuthSpec: the two authorization functions, called on any two nodes of   *)
(* any is-member forest over AuthNodes.                                     *)

AuthNodes == Orgs \cup Users \cup {"r1"}

\* Following f from n for k steps leaves AuthNodes: n is on no cycle of f.
RECURSIVE LeavesWithin(_, _, _)
LeavesWithin(f, n, k) ==
  IF n \notin DOMAIN f THEN TRUE
  ELSE IF k = 0 THEN FALSE
  ELSE LeavesWithin(f, f[n], k - 1)

\* The parent maps of the forests over Nodes: a node's parent is another node,
\* SYSTEM, or missing.
Forests(Nodes) ==
  { f \in [Nodes -> Nodes \cup {SYSTEM, Undefined}] :
      \A n \in Nodes : LeavesWithin(f, n, Cardinality(Nodes)) }

MemberEdges(f) ==
  { << n, IsMember, f[n] >> : n \in { m \in DOMAIN f : f[m] # Undefined } }

AuthInit ==
  /\ datastore = TRUE
  /\ resourceRelationshipDatastore \in BOOLEAN
  /\ edges \in IF resourceRelationshipDatastore
               THEN { MemberEdges(f) : f \in Forests(AuthNodes) }
               ELSE { {} }
  /\ records = << >>
  /\ index = << >>
  /\ now = 0
  /\ usedIDs = {}
  /\ result = NoResult
  /\ authz = NoAuthz
  /\ IdleWalk
  /\ IdleCalls

\* One call is made on the forest drawn: the functions read the store and
\* write nothing, so a second call would see what the first saw.
VerifyRetrieve(userID, resourceID) ==
  /\ authz = NoAuthz
  /\ authz' = [fn |-> "verifyRetrieve", userID |-> userID, resourceID |-> resourceID,
               allowed |-> verifyThatUserCanRetrieveResource(userID, resourceID)]
  /\ UNCHANGED << storeVars, walkVars, callVars >>

VerifyUpdate(userID, resourceID) ==
  /\ authz = NoAuthz
  /\ authz' = [fn |-> "verifyUpdate", userID |-> userID, resourceID |-> resourceID,
               allowed |-> verifyThatUserCanUpdateResource(userID, resourceID)]
  /\ UNCHANGED << storeVars, walkVars, callVars >>

AuthNext ==
  \E userID \in AuthNodes, resourceID \in AuthNodes :
    \/ VerifyRetrieve(userID, resourceID)
    \/ VerifyUpdate(userID, resourceID)

AuthSpec == AuthInit /\ [][AuthNext]_vars

-----------------------------------------------------------------------------
(* ResourceStore and ResourceFactory (external collaborators of this file). *)

\* A JavaScript object is a function from its keys to their values.
NoObject == << >>
Has(object, key) == key \in DOMAIN object
\* Object.assign({}, a, b): b's value wins per key.
Assign(a, b) == b @@ a
\* Reflect.deleteProperty(object, key)
DeleteProperty(object, key) == [k \in DOMAIN object \ {key} |-> object[k]]

\* NucleusResource.generateItemKey(resourceType, resourceID)
generateItemKey(resourceType, resourceID) == << resourceType, resourceID >>

\* $datastore.$$server.existsAsync(itemKey)
existsAsync(R, itemKey) == itemKey \in DOMAIN R

\* $datastore.retrieveAllItemsFromHashByName(itemKey)
retrieveAllItemsFromHashByName(R, itemKey) ==
  IF itemKey \in DOMAIN R THEN R[itemKey] ELSE NoObject

\* $datastore.addItemToHashFieldByName(itemKey, fields): the fields given are
\* written, the other stored fields stay.
addItemToHashFieldByName(R, itemKey, fields) ==
  (itemKey :> Assign(retrieveAllItemsFromHashByName(R, itemKey), fields)) @@ R

\* $datastore.removeItemByName(itemKey)
removeItemByName(R, itemKey) == [k \in DOMAIN R \ {itemKey} |-> R[k]]

\* $datastore.addItemToSetByName(RESOURCE_ID_BY_TYPE_TABLE_NAME, resourceType, ID)
addItemToSetByName(I, resourceType, ID) ==
  (resourceType :> ((IF resourceType \in DOMAIN I THEN I[resourceType] ELSE {}) \cup {ID})) @@ I

\* new NucleusResourceModel(resourceAttributes, authorUserID, reservedResourceID),
\* at clock time time and with uuid the ID a new resource gets: the ID the
\* attributes carry, else the reserved one, else a new one; the meta block the
\* attributes carry over an initial one.
NucleusResourceModel(resourceAttributes, authorUserID, reservedResourceID, time, uuid) ==
  LET ID == IF Has(resourceAttributes, "ID") THEN resourceAttributes["ID"]
            ELSE IF reservedResourceID # Undefined THEN reservedResourceID
            ELSE uuid
      meta == Assign([createdISOTime |-> time, updatedISOTime |-> time],
                     IF Has(resourceAttributes, "meta") THEN resourceAttributes["meta"]
                     ELSE NoObject)
  IN  Assign(resourceAttributes, [ID |-> ID, meta |-> meta])

-----------------------------------------------------------------------------
(* The inputs of the lifecycle calls.                                       *)

\* A value that is no string (nucleusValidator.isString fails on it).
NotAString == "<not a string>"
isString(value) == value # NotAString
isEmpty(value) == value = ""

ResourceTypes == {"Dummy"}

\* The clock runs from 0 to MaxTime.
MaxTime == 1

\* The attribute objects callers send: plain ones, and ones that carry the
\* reserved keys ID and meta.
ForgedID == "forgedID"
ForgedMeta == [createdISOTime |-> MaxTime + 1, updatedISOTime |-> 0]
CreateAttributes ==
  { [name |-> "x"], [name |-> "x", color |-> "x"] }
    \cup { [name |-> "y", ID |-> id, meta |-> ForgedMeta] : id \in ResourceIDs }
PatchAttributes ==
  { [name |-> "y"], [color |-> "y"],
    [name |-> "x", ID |-> ForgedID, meta |-> ForgedMeta] }

\* The parentNodeID arguments of create: left out, a node of the hierarchy, the
\* sentinel.
ParentNodeIDs == {Undefined, "orgB", SYSTEM}

\* The clock read after it may have ticked once.
ClockReads(time) == { t \in {time, time + 1} : t <= MaxTime }

\* uuid: an ID that was never handed out.
NewIDs == { id \in ResourceIDs : id \notin usedIDs
                                   /\ \A other \in ResourceIDs \ usedIDs :
                                        \E i, j \in DOMAIN NodeOrder :
                                           NodeOrder[i] = id /\ NodeOrder[j] = other /\ i <= j }

\* What a call that threw leaves in result.
Thrown(op, kind, resourceType, resourceID, originUserID) ==
  [NoResult EXCEPT !.op = op, !.kind = kind, !.resourceType = resourceType,
                   !.resourceID = resourceID, !.originUserID = originUserID]

-----------------------------------------------------------------------------
(* Spec: the lifecycle calls, one after the other, on a hierarchy in which  *)
(* orgA and orgB are top-level trees and each user is a member of nothing,  *)
(* of SYSTEM, of orgA or of orgB.                                            *)

\* Lines 41-44, 104-106, 159-162, 214-218: the argument checks.
ArgumentsAreValid(resourceType, originUserID) ==
  /\ isString(resourceType)
  /\ isString(originUserID) /\ ~isEmpty(originUserID)

UserForests ==
  { [orgA |-> SYSTEM, orgB |-> SYSTEM, userU |-> pu, userV |-> pv] :
      pu \in {Undefined, SYSTEM, "orgA", "orgB"}, pv \in {Undefined, SYSTEM, "orgA", "orgB"} }

Init ==
  /\ datastore \in BOOLEAN
  /\ resourceRelationshipDatastore \in BOOLEAN
  /\ edges \in IF datastore /\ resourceRelationshipDatastore
               THEN { MemberEdges(f) : f \in UserForests }
               ELSE { {} }
  /\ records = << >>
  /\ index = << >>
  /\ now = 0
  /\ usedIDs = {}
  /\ result = NoResult
  /\ authz = NoAuthz
  /\ IdleWalk
  /\ IdleCalls

createResource(resourceType, resourceAttributes, originUserID, parentNodeID) ==
  IF ~ArgumentsAreValid(resourceType, originUserID)
  THEN /\ result' = Thrown("create", "invalid-argument", resourceType, Undefined, originUserID)
       /\ UNCHANGED << edges, records, index, now, usedIDs >>
  ELSE IF ~datastore
  THEN /\ result' = Thrown("create", "undefined-context", resourceType, Undefined, originUserID)
       /\ UNCHANGED << edges, records, index, now, usedIDs >>
  ELSE LET memberNodeID ==
             IF resourceRelationshipDatastore /\ parentNodeID = Undefined
             THEN First(ListOf(retrieveObjectOfRelationshipWithSubject(originUserID, IsMember)))
             ELSE parentNodeID
       IN  IF memberNodeID = Undefined
           THEN /\ result' = [Thrown("create", "NucleusError", resourceType, Undefined,
                                     originUserID) EXCEPT !.parentNodeID = parentNodeID]
                /\ UNCHANGED << edges, records, index, now, usedIDs >>
           ELSE LET reservedResourceID ==
                      IF Has(resourceAttributes, "ID") THEN resourceAttributes["ID"]
                      ELSE Undefined
                    stripped ==
                      DeleteProperty(DeleteProperty(resourceAttributes, "ID"), "meta")
                IN  \E time \in ClockReads(now) :
                    \E uuid \in IF reservedResourceID = Undefined THEN NewIDs ELSE {Undefined} :
                      LET resource == NucleusResourceModel(stripped, originUserID,
                                                           reservedResourceID, time, uuid)
                          resourceItemKey == generateItemKey(resourceType, resource["ID"])
                      IN  /\ now' = time
                          /\ usedIDs' = usedIDs \cup {resource["ID"]}
                          /\ records' = addItemToHashFieldByName(records, resourceItemKey,
                                                                 resource)
                          /\ index' = addItemToSetByName(index, resourceType, resource["ID"])
                          /\ edges' =
                               IF ~resourceRelationshipDatastore THEN edges
                               ELSE createRelationshipBetweenSubjectAndObject(
                                      createRelationshipBetweenSubjectAndObject(
                                        edges, resource["ID"], IsMember, memberNodeID),
                                      resource["ID"], IsAuthored, originUserID)
                          /\ result' = [op |-> "create", kind |-> "ok",
                                        resourceType |-> resourceType,
                                        resourceID |-> resource["ID"],
                                        originUserID |-> originUserID,
                                        resource |-> resource,
                                        resourceMemberNodeID |-> memberNodeID,
                                        parentNodeID |-> parentNodeID,
                                        sent |-> NoObject]

\* Mutant of removeResourceByID: the ID is also taken out of the type index.
removeResourceAndIndexEntry(resourceType, resourceID, originUserID) ==
  IF ~ArgumentsAreValid(resourceType, originUserID)
  THEN /\ result' = Thrown("remove", "invalid-argument", resourceType, resourceID, originUserID)
       /\ UNCHANGED << edges, records, index, now, usedIDs >>
  ELSE IF ~datastore
  THEN /\ result' = Thrown("remove", "undefined-context", resourceType, resourceID, originUserID)
       /\ UNCHANGED << edges, records, index, now, usedIDs >>
  ELSE IF ~verifyThatUserCanUpdateResource(originUserID, resourceID)
  THEN /\ result' = Thrown("remove", "unauthorized-action", resourceType, resourceID,
                           originUserID)
       /\ UNCHANGED << edges, records, index, now, usedIDs >>
  ELSE IF ~existsAsync(records, generateItemKey(resourceType, resourceID))
  THEN /\ result' = Thrown("remove", "undefined-context", resourceType, resourceID, originUserID)
       /\ UNCHANGED << edges, records, index, now, usedIDs >>
  ELSE /\ records' = removeItemByName(records, generateItemKey(resourceType, resourceID))
       /\ edges' = IF ~resourceRelationshipDatastore THEN edges
                   ELSE removeAllRelationshipsToVector(edges, resourceID)
       /\ result' = [Thrown("remove", "ok", resourceType, resourceID, originUserID)
                       EXCEPT !.kind = "ok"]
       /\ index' = [index EXCEPT ![resourceType] = @ \ {resourceID}]
       /\ UNCHANGED << now, usedIDs >>

removeResourceByID(resourceType, resourceID, originUserID) ==
  IF ~ArgumentsAreValid(resourceType, originUserID)
  THEN /\ result' = Thrown("remove", "invalid-argument", resourceType, resourceID, originUserID)
       /\ UNCHANGED << edges, records, index, now, usedIDs >>
  ELSE IF ~datastore
  THEN /\ result' = Thrown("remove", "undefined-context", resourceType, resourceID, originUserID)
       /\ UNCHANGED << edges, records, index, now, usedIDs >>
  ELSE IF ~verifyThatUserCanUpdateResource(originUserID, resourceID)
  THEN /\ result' = Thrown("remove", "unauthorized-action", resourceType, resourceID,
                           originUserID)
       /\ UNCHANGED << edges, records, index, now, usedIDs >>
  ELSE IF ~existsAsync(records, generateItemKey(resourceType, resourceID))
  THEN /\ result' = Thrown("remove", "undefined-context", resourceType, resourceID, originUserID)
       /\ UNCHANGED << edges, records, index, now, usedIDs >>
  ELSE /\ records' = removeItemByName(records, generateItemKey(resourceType, resourceID))
       /\ edges' = IF ~resourceRelationshipDatastore THEN edges
                   ELSE removeAllRelationshipsToVector(edges, resourceID)
       /\ result' = [Thrown("remove", "ok", resourceType, resourceID, originUserID)
                       EXCEPT !.kind = "ok"]
       /\ UNCHANGED << index, now, usedIDs >>

retrieveResourceByID(resourceType, resourceID, originUserID) ==
  /\ UNCHANGED << edges, records, index, now, usedIDs >>
  /\ IF ~ArgumentsAreValid(resourceType, originUserID)
     THEN result' = Thrown("retrieve", "invalid-argument", resourceType, resourceID,
                           originUserID)
     ELSE IF ~datastore
     THEN result' = Thrown("retrieve", "undefined-context", resourceType, resourceID,
                           originUserID)
     ELSE IF ~verifyThatUserCanRetrieveResource(originUserID, resourceID)
     THEN result' = Thrown("retrieve", "unauthorized-action", resourceType, resourceID,
                           originUserID)
     ELSE IF ~existsAsync(records, generateItemKey(resourceType, resourceID))
     THEN result' = Thrown("retrieve", "undefined-context", resourceType, resourceID,
                           originUserID)
     ELSE LET resourceAttributes ==
                retrieveAllItemsFromHashByName(records,
                                               generateItemKey(resourceType, resourceID))
              resource == NucleusResourceModel(resourceAttributes, originUserID, Undefined,
                                               now, Undefined)
          IN  result' = [op |-> "retrieve", kind |-> "ok", resourceType |-> resourceType,
                         resourceID |-> resourceID, originUserID |-> originUserID,
                         resource |-> resource, resourceMemberNodeID |-> Undefined,
                         parentNodeID |-> Undefined, sent |-> NoObject]

\* Mutant of StripReservedKeys: the patch is used as it was sent.
KeepReservedKeys(resourceAttributes) == resourceAttributes

\* Lines 239-240: the reserved keys are deleted from the patch.
StripReservedKeys(resourceAttributes) ==
  DeleteProperty(DeleteProperty(resourceAttributes, "ID"), "meta")

updatesResourceByID(resourceType, resourceID, resourceAttributes, originUserID) ==
  IF ~ArgumentsAreValid(resourceType, originUserID)
  THEN /\ result' = Thrown("update", "invalid-argument", resourceType, resourceID, originUserID)
       /\ UNCHANGED << edges, records, index, now, usedIDs >>
  ELSE IF ~datastore
  THEN /\ result' = Thrown("update", "undefined-context", resourceType, resourceID, originUserID)
       /\ UNCHANGED << edges, records, index, now, usedIDs >>
  ELSE IF ~verifyThatUserCanUpdateResource(originUserID, resourceID)
  THEN /\ result' = Thrown("update", "unauthorized-action", resourceType, resourceID,
                           originUserID)
       /\ UNCHANGED << edges, records, index, now, usedIDs >>
  ELSE IF ~existsAsync(records, generateItemKey(resourceType, resourceID))
  THEN /\ result' = Thrown("update", "undefined-context", resourceType, resourceID, originUserID)
       /\ UNCHANGED << edges, records, index, now, usedIDs >>
  ELSE \E firstTime \in ClockReads(now) :
       \E secondTime \in ClockReads(firstTime) :
         LET resourceItemKey == generateItemKey(resourceType, resourceID)
             stored == retrieveAllItemsFromHashByName(records, resourceItemKey)
             staleResourceAttributes ==
               Assign(stored,
                      [meta |-> Assign([updatedISOTime |-> firstTime],
                                       IF Has(stored, "meta") THEN stored["meta"]
                                       ELSE NoObject)])
             patch == StripReservedKeys(resourceAttributes)
             constructed == NucleusResourceModel(Assign(staleResourceAttributes, patch),
                                                 originUserID, Undefined, secondTime,
                                                 Undefined)
             resource == Assign(constructed,
                                [meta |-> Assign(constructed["meta"],
                                                 [updatedISOTime |-> secondTime])])
         IN  /\ now' = secondTime
             /\ records' = addItemToHashFieldByName(records, resourceItemKey,
                                                    Assign([meta |-> resource["meta"]], patch))
             /\ result' = [op |-> "update", kind |-> "ok", resourceType |-> resourceType,
                           resourceID |-> resourceID, originUserID |-> originUserID,
                           resource |-> resource, resourceMemberNodeID |-> Undefined,
                           parentNodeID |-> Undefined, sent |-> resourceAttributes]
             /\ UNCHANGED << edges, index, usedIDs >>

Create ==
  \E resourceType \in ResourceTypes,
     resourceAttributes \in CreateAttributes,
     originUserID \in Users \cup {""},
     parentNodeID \in ParentNodeIDs :
    /\ createResource(resourceType, resourceAttributes, originUserID, parentNodeID)
    /\ UNCHANGED << datastore, resourceRelationshipDatastore, authz, walkVars, callVars >>

Remove ==
  \E resourceType \in ResourceTypes,
     resourceID \in ResourceIDs,
     originUserID \in Users \cup {""} :
    /\ removeResourceByID(resourceType, resourceID, originUserID)
    /\ UNCHANGED << datastore, resourceRelationshipDatastore, authz, walkVars, callVars >>

Retrieve ==
  \E resourceType \in ResourceTypes,
     resourceID \in ResourceIDs,
     originUserID \in Users \cup {""} :
    /\ retrieveResourceByID(resourceType, resourceID, originUserID)
    /\ UNCHANGED << datastore, resourceRelationshipDatastore, authz, walkVars, callVars >>

Update ==
  \E resourceType \in ResourceTypes,
     resourceID \in ResourceIDs,
     resourceAttributes \in PatchAttributes,
     originUserID \in Users \cup {""} :
    /\ updatesResourceByID(resourceType, resourceID, resourceAttributes, originUserID)
    /\ UNCHANGED << datastore, resourceRelationshipDatastore, authz, walkVars, callVars >>

Next == Create \/ Remove \/ Retrieve \/ Update

Spec == Init /\ [][Next]_vars

-----------------------------------------------------------------------------
(* The hierarchy as a graph, defined from the is-member edges alone.        *)

MemberPairs == { << t[1], t[3] >> : t \in { e \in edges : e[2] = IsMember } }

DirectParents(n) == { p[2] : p \in { q \in MemberPairs : q[1] = n } }
DirectChildren(n) == { p[1] : p \in { q \in MemberPairs : q[2] = n } }

RECURSIVE UpClosure(_)
UpClosure(S) ==
  LET T == S \cup UNION { DirectParents(n) : n \in S }
  IN  IF T = S THEN S ELSE UpClosure(T)

RECURSIVE DownClosure(_)
DownClosure(S) ==
  LET T == S \cup UNION { DirectChildren(n) : n \in S }
  IN  IF T = S THEN S ELSE DownClosure(T)

\* The nodes above n, without the sentinel.
NonSystemAncestors(n) == UpClosure(DirectParents(n)) \ {SYSTEM}
\* The nodes below n.
Descendants(n) == DownClosure(DirectChildren(n))

\* Every subject has at most one direct is-member object, and SYSTEM has none.
IsForest ==
  /\ \A p, q \in MemberPairs : p[1] = q[1] => p = q
  /\ DirectParents(SYSTEM) = {}

\* The top of the tree n lies in: n or its ancestor whose parent is SYSTEM or missing.
TopLevelNodes(n) ==
  { a \in {n} \cup NonSystemAncestors(n) : DirectParents(a) \subseteq {SYSTEM} }

\* n's direct parent when it is not the sentinel.
NearestAncestor(n) ==
  IF DirectParents(n) \ {SYSTEM} = {} THEN Undefined
  ELSE CHOOSE p \in DirectParents(n) \ {SYSTEM} : TRUE

\* n's first direct parent, the sentinel included.
FirstDirectParent(n) ==
  IF DirectParents(n) = {} THEN Undefined ELSE First(ListOf(DirectParents(n)))

-----------------------------------------------------------------------------
(* Claims about the authorization functions (AuthSpec).                     *)

\* C3: whenever verifyUpdate(U, R) allows on a forest, verifyRetrieve(U, R)
\* allows too (update authorization is at least as strict as retrieve's).
C3_UpdateImpliesRetrieve ==
  (authz.fn = "verifyUpdate" /\ IsForest /\ authz.allowed)
    => verifyThatUserCanRetrieveResource(authz.userID, authz.resourceID)

\* C4: with a RelationshipStore, a user U and a resource R that lie in
\* different top-level trees are denied by verifyRetrieve and by verifyUpdate.
C4_DisjointTreesDenied ==
  ( /\ authz.fn \in {"verifyRetrieve", "verifyUpdate"}
    /\ resourceRelationshipDatastore
    /\ IsForest
    /\ TopLevelNodes(authz.userID) \cap TopLevelNodes(authz.resourceID) = {}
    /\ NonSystemAncestors(authz.userID) \cap NonSystemAncestors(authz.resourceID) = {} )
    => ~authz.allowed

\* C5: with a RelationshipStore over a forest, verifyRetrieve(U, R) allows
\* exactly when some non-SYSTEM ancestor of R is a non-SYSTEM ancestor of U or
\* a descendant of U's nearest ancestor (the first element of walkUp(U)).
C5_RetrieveDecision ==
  (authz.fn = "verifyRetrieve" /\ resourceRelationshipDatastore /\ IsForest)
    => ( authz.allowed <=>
           \E a \in NonSystemAncestors(authz.resourceID) :
              \/ a \in NonSystemAncestors(authz.userID)
              \/ /\ NearestAncestor(authz.userID) # Undefined
                 /\ a \in Descendants(NearestAncestor(authz.userID)) )

\* C5's case: retrieve is allowed through an ancestor of U above its parent
\* that is no descendant of that parent.
C5_Witness ==
  /\ authz.fn = "verifyRetrieve"
  /\ resourceRelationshipDatastore
  /\ IsForest
  /\ authz.allowed
  /\ NearestAncestor(authz.userID) # Undefined
  /\ NonSystemAncestors(authz.resourceID)
       \cap ({NearestAncestor(authz.userID)} \cup Descendants(NearestAncestor(authz.userID))) = {}

\* C6: with a RelationshipStore over a forest, verifyUpdate(U, R) allows
\* exactly when some non-SYSTEM ancestor of R is a direct parent of U or a
\* descendant of U's first direct parent; U's higher ancestors do not count.
C6_UpdateDecision ==
  (authz.fn = "verifyUpdate" /\ resourceRelationshipDatastore /\ IsForest)
    => ( authz.allowed <=>
           \E a \in NonSystemAncestors(authz.resourceID) :
              \/ a \in DirectParents(authz.userID)
              \/ /\ FirstDirectParent(authz.userID) # Undefined
                 /\ a \in Descendants(FirstDirectParent(authz.userID)) )

\* C6's case: U and R share an ancestor above U's direct parent, and update
\* is denied.
C6_Witness ==
  /\ authz.fn = "verifyUpdate"
  /\ resourceRelationshipDatastore
  /\ IsForest
  /\ ~authz.allowed
  /\ NonSystemAncestors(authz.userID) \cap NonSystemAncestors(authz.resourceID) # {}

-----------------------------------------------------------------------------
(* WalkSpec: one call of walkHierarchyTreeUpward or walkHierarchyTreeDownward *)
(* on any is-member graph over WalkNodes, cycles and edges out of SYSTEM      *)
(* included.  The store reads of sibling branches are in flight together     *)
(* and answer in any order; what follows an answer runs without interruption. *)

WalkNodes == {SYSTEM, "orgA", "orgB", "userU"}

\* The finite depths a walk is called with (Infinity is the default).
MaxDepth == 2
\* A walk is followed for at most this many store reads (a walk on a cyclic
\* graph never ends).
MaxReads == 8

WalkGraphs ==
  { { << p[1], IsMember, p[2] >> : p \in P } :
      P \in SUBSET { q \in WalkNodes \X WalkNodes : q[1] # q[2] } }

\* The reads issued for the nodes of list, added to the reads in flight.
RECURSIVE Issue(_, _)
Issue(inFlight, list) ==
  IF list = << >> THEN inFlight
  ELSE Issue([inFlight EXCEPT ![Head(list)] = @ + 1], Tail(list))

\* A walk in either direction from any node of Nodes, on any graph of Graphs,
\* called with any depth of Depths.
WalkInitOver(Nodes, Graphs, Depths) ==
  /\ datastore = TRUE
  /\ resourceRelationshipDatastore = TRUE
  /\ edges \in Graphs
  /\ records = << >>
  /\ index = << >>
  /\ now = 0
  /\ usedIDs = {}
  /\ result = NoResult
  /\ authz = NoAuthz
  /\ walk \in [direction : {"up", "down"}, resourceID : Nodes, depth : Depths]
  /\ nodeIDList = << >>
  /\ pending = Issue([n \in Nodes |-> 0], << walk.resourceID >>)
  /\ reads = 0
  /\ resolved = FALSE
  /\ IdleCalls

WalkInitOn(Graphs) == WalkInitOver(WalkNodes, Graphs, (0..MaxDepth) \cup {Infinity})

WalkInit == WalkInitOn(WalkGraphs)

\* The store answers the read issued for nodeID, and
\* retrieveAncestorForResourceByID(nodeID) runs from its await to its return.
ReadAnswers(nodeID, answer) ==
  /\ pending[nodeID] > 0
  /\ reads < MaxReads
  /\ LET step == WalkContinue(walk.direction, nodeID, nodeIDList, walk.depth, answer)
     IN  /\ nodeIDList' = step.nodeIDList
         /\ pending' = Issue([pending EXCEPT ![nodeID] = @ - 1], step.next)
  /\ reads' = reads + 1
  /\ UNCHANGED << storeVars, authz, walk, resolved, callVars >>

\* Every branch has returned: resolve(nodeIDList).
WalkResolves ==
  /\ ~resolved
  /\ \A n \in DOMAIN pending : pending[n] = 0
  /\ resolved' = TRUE
  /\ UNCHANGED << storeVars, authz, walk, nodeIDList, pending, reads, callVars >>

WalkNext ==
  \/ \E nodeID \in DOMAIN pending :
       \E answer \in ListsOf(WalkRead(walk.direction, nodeID)) :
         ReadAnswers(nodeID, answer)
  \/ WalkResolves

WalkSpec == WalkInit /\ [][WalkNext]_vars

\* No node of the graph E is its own ancestor.
AcyclicGraph(E) ==
  LET Pairs == { << t[1], t[3] >> : t \in { e \in E : e[2] = IsMember } }
      Above(S) == { p[2] : p \in { q \in Pairs : q[1] \in S } }
      ReachedIn[k \in 0..Cardinality(WalkNodes)] ==
        [n \in WalkNodes |->
           IF k = 0 THEN Above({n}) ELSE ReachedIn[k - 1][n] \cup Above(ReachedIn[k - 1][n])]
  IN  \A n \in WalkNodes : n \notin ReachedIn[Cardinality(WalkNodes)][n]

IsAcyclic == AcyclicGraph(edges)

\* The walks on the acyclic graphs, where every store read that is in flight
\* eventually answers and a promise whose branches have all returned resolves.
WalkFairSpec ==
  WalkInitOn({ E \in WalkGraphs : AcyclicGraph(E) }) /\ [][WalkNext]_vars /\ WF_vars(WalkNext)

-----------------------------------------------------------------------------
(* Claims about the lifecycle calls (Spec).                                 *)

\* The attributes of a resource: its fields without the reserved keys.
Attributes(resource) == DeleteProperty(DeleteProperty(resource, "ID"), "meta")

\* The step is a retrieve of the resource the call before it was about, with
\* valid arguments.
RetrieveFollows ==
  /\ result'.op = "retrieve"
  /\ result'.kind # "invalid-argument"
  /\ result'.resourceType = result.resourceType
  /\ result'.resourceID = result.resourceID

\* C1: a retrieve by U right after a successful create by U succeeds and
\* returns the ID, the attributes and the author of the create.
C1_CreateThenRetrieve ==
  [][ ( /\ result.op = "create" /\ result.kind = "ok"
        /\ RetrieveFollows
        /\ result'.originUserID = result.originUserID )
      => ( /\ result'.kind = "ok"
           /\ result'.resource["ID"] = result.resource["ID"]
           /\ Attributes(result'.resource) = Attributes(result.resource)
           /\ result'.originUserID = result.originUserID ) ]_vars

\* C2: a retrieve of the ID right after a successful remove, by any user, fails
\* with undefined-context, with and without a RelationshipStore.
C2_RemoveThenRetrieve ==
  [][ (result.op = "remove" /\ result.kind = "ok" /\ RetrieveFollows)
      => result'.kind = "undefined-context" ]_vars

\* C7: a create without parentNodeID takes the user's first direct is-member
\* object as the parent, returns it and writes it as the object of the new
\* is-member edge; when there is none to take (no such object, or no
\* RelationshipStore), it fails with undefined-context and writes nothing.
C7_ParentResolution ==
  [][ ( /\ result'.op = "create"
        /\ result'.kind \notin {"invalid-argument"}
        /\ datastore
        /\ result'.parentNodeID = Undefined )
      => LET parents == DirectParents(result'.originUserID)
         IN  IF resourceRelationshipDatastore /\ parents # {}
             THEN /\ result'.kind = "ok"
                  /\ result'.resourceMemberNodeID \in parents
                  /\ << result'.resourceID, IsMember, result'.resourceMemberNodeID >> \in edges'
             ELSE /\ result'.kind = "undefined-context"
                  /\ UNCHANGED << edges, records, index >> ]_vars

\* C8: a successful update, whatever the patch carries, leaves the resource's
\* ID and createdISOTime as they were, in the stored record and in the resource
\* returned, and its updatedISOTime is not earlier than before.
C8_UpdateKeepsIdentity ==
  [][ (result'.op = "update" /\ result'.kind = "ok")
      => LET resourceItemKey == generateItemKey(result'.resourceType, result'.resourceID)
             before == records[resourceItemKey]
             after == records'[resourceItemKey]
             returned == result'.resource
         IN  /\ after["ID"] = before["ID"]
             /\ returned["ID"] = before["ID"]
             /\ after["meta"].createdISOTime = before["meta"].createdISOTime
             /\ returned["meta"].createdISOTime = before["meta"].createdISOTime
             /\ after["meta"].updatedISOTime >= before["meta"].updatedISOTime
             /\ returned["meta"].updatedISOTime >= before["meta"].updatedISOTime ]_vars

\* C8's case: an update whose patch carried the reserved keys has succeeded, at
\* a later time than the create.
C8_Witness ==
  /\ result.op = "update" /\ result.kind = "ok"
  /\ Has(result.sent, "ID") /\ Has(result.sent, "meta")
  /\ LET stored == records[generateItemKey(result.resourceType, result.resourceID)]
     IN  stored["meta"].updatedISOTime > stored["meta"].createdISOTime

-----------------------------------------------------------------------------
(* Claims about the walks (WalkSpec, WalkFairSpec).                         *)

\* C9: under every order in which the store reads answer, and for every graph,
\* start node and depth, the walk's list never holds SYSTEM and never holds a
\* node ID twice; so neither does the list the walk returns.
C9_NoSystemNoDuplicate ==
  /\ SYSTEM \notin Range(nodeIDList)
  /\ \A i, j \in DOMAIN nodeIDList : nodeIDList[i] = nodeIDList[j] => i = j

\* C9's case: a walk has returned a node that it reached over two paths, and a
\* branch of it ended at SYSTEM.
C9_Witness ==
  /\ resolved
  /\ \E n \in Range(nodeIDList) :
       \E m1, m2 \in Range(nodeIDList) \cup {walk.resourceID} :
          /\ m1 # m2
          /\ n \in WalkRead(walk.direction, m1)
          /\ n \in WalkRead(walk.direction, m2)
  /\ \E m \in Range(nodeIDList) : SYSTEM \in WalkRead(walk.direction, m)

\* C10: on an acyclic graph every walk, from every start node, eventually
\* resolves, provided every store read eventually answers.
C10_WalkTerminates == <>resolved

\* C10's case: a walk that needed at least three store reads has resolved.
C10_Witness == resolved /\ reads >= 3 /\ IsAcyclic

-----------------------------------------------------------------------------
(* TreeWalkSpec: one walk on a hierarchy as create builds it, node by node,  *)
(* each new node a member of a node that was there before; orgA is the one   *)
(* member of SYSTEM.  These hierarchies are forests, and wide and deep       *)
(* enough for sibling branches to race for a finite depth.                   *)

TreeNodes == << "orgA", "orgB", "userU", "userV", "r1", "r2" >>

\* The finite depths the walks on the trees are called with.
MaxTreeDepth == 4

TreeForests ==
  { f \in [Range(TreeNodes) -> Range(TreeNodes) \cup {SYSTEM}] :
      \A i \in DOMAIN TreeNodes :
         IF i = 1 THEN f[TreeNodes[i]] = SYSTEM
         ELSE \E j \in 1..(i - 1) : f[TreeNodes[i]] = TreeNodes[j] }

TreeWalkInit ==
  WalkInitOver(Range(TreeNodes) \cup {SYSTEM},
               { MemberEdges(f) : f \in TreeForests },
               (0..MaxTreeDepth) \cup {Infinity})

TreeWalkSpec == TreeWalkInit /\ [][WalkNext]_vars

\* The nodes within k is-member hops of the nodes of S, in the walk's direction.
RECURSIVE WithinHops(_, _, _)
WithinHops(direction, S, k) ==
  IF k = 0 THEN {}
  ELSE LET T == UNION { IF direction = "up" THEN DirectParents(n) ELSE DirectChildren(n) :
                          n \in S }
       IN  T \cup WithinHops(direction, T, k - 1)

\* What the walk in progress returns when it is called with depth = Infinity.
UnboundedWalk ==
  IF walk.direction = "up" THEN walkHierarchyTreeUpward(walk.resourceID, Infinity)
  ELSE walkHierarchyTreeDownward(walk.resourceID, Infinity)

\* C17: a walk with a finite depth d on a forest, under every order in which
\* its store reads answer, collects only nodes within d + 1 hops of the start
\* node, and only nodes that the walk with depth = Infinity returns.
C17_DepthBound ==
  walk.depth # Infinity
    => /\ Range(nodeIDList)
            \subseteq WithinHops(walk.direction, {walk.resourceID}, walk.depth + 1)
       /\ Range(nodeIDList) \subseteq Range(UnboundedWalk)

\* C17's case: a walk with a finite depth has returned a node one level beyond
\* its depth, and has left out a node that the unbounded walk returns.
C17_Witness ==
  /\ resolved
  /\ walk.depth # Infinity
  /\ \E n \in Range(nodeIDList) :
       n \notin WithinHops(walk.direction, {walk.resourceID}, walk.depth)
  /\ Range(nodeIDList) # Range(UnboundedWalk)

\* C20: the set of nodes walkDown(n, depth) returns is the same under every
\* order in which the store reads of sibling branches answer: it is the set
\* returned when the reads answer in the order they were issued.
C20_WalkDownDeterministic ==
  (resolved /\ walk.direction = "down")
    => Range(nodeIDList) = Range(walkHierarchyTreeDownward(walk.resourceID, walk.depth))

-----------------------------------------------------------------------------
(* ConcSpec: two lifecycle calls, made at any moment, on a system that holds *)
(* the resource r1 (created by userU, a member of orgA).  A call runs from   *)
(* one await to the next without interruption; a step of the specification  *)
(* is a call being made, or a store call of it answering or rejecting, so    *)
(* the store calls of the two calls answer in any order.  An authorization   *)
(* check reads the RelationshipStore at one instant.                         *)

\* At most this many store calls reject.
MaxFaults == 1

\* The IDs uuid hands out after r1.
ConcIDs == {"r1", "r2", "r3"}

ConcHierarchy == [orgA |-> SYSTEM, orgB |-> SYSTEM, userU |-> "orgA", userV |-> "orgB"]

\* The stored record of r1.
StoredResource ==
  NucleusResourceModel([name |-> "x", color |-> "x"], "userU", Undefined, 0, "r1")

ConcCreateAttributes ==
  { [name |-> "x"], [name |-> "y", ID |-> "r1", meta |-> ForgedMeta] }
ConcParentNodeIDs == {Undefined, "orgB"}
ConcUsers == Users \cup {""}

ConcInit ==
  /\ datastore \in BOOLEAN
  /\ resourceRelationshipDatastore \in BOOLEAN
  /\ edges = IF datastore /\ resourceRelationshipDatastore
             THEN MemberEdges(ConcHierarchy)
                    \cup { << "r1", IsMember, "orgA" >>, << "r1", IsAuthored, "userU" >> }
             ELSE {}
  /\ records = IF datastore THEN (generateItemKey("Dummy", "r1") :> StoredResource)
               ELSE << >>
  /\ index = IF datastore THEN ("Dummy" :> {"r1"}) ELSE << >>
  /\ now = 0
  /\ usedIDs = IF datastore THEN {"r1"} ELSE {}
  /\ result = NoResult
  /\ authz = NoAuthz
  /\ IdleWalk
  /\ IdleCalls

\* uuid: the first ID that was never handed out.
FreshIDs == { id \in ConcIDs \ usedIDs :
                \A other \in ConcIDs \ usedIDs :
                   \E i, j \in DOMAIN NodeOrder :
                      NodeOrder[i] = id /\ NodeOrder[j] = other /\ i <= j }

\* throw new NucleusError...(...)
Fail(call, kind) == [call EXCEPT !.pc = "done", !.kind = kind]
\* The call's promise resolves.
Return(call) == [call EXCEPT !.pc = "done", !.kind = "ok"]

ItemKey(call) == generateItemKey(call.resourceType, call.resourceID)

\* Lines 52-64: the parent is known; the resource is constructed and the record
\* write and the type-index write are issued together.
createFromParent(call, memberNodeID, time, uuid) ==
  IF memberNodeID = Undefined THEN Fail(call, "NucleusError")
  ELSE LET reservedResourceID ==
             IF Has(call.sent, "ID") THEN call.sent["ID"] ELSE Undefined
           resource == NucleusResourceModel(StripReservedKeys(call.sent), call.originUserID,
                                            reservedResourceID, time, uuid)
       IN  [call EXCEPT !.pc = "phase1",
                        !.memberNodeID = memberNodeID,
                        !.resourceID = resource["ID"],
                        !.resource = resource,
                        !.fields = resource,
                        !.io.read = "none",
                        !.io.record = "pending",
                        !.io.index = "pending",
                        !.issued = @ \o << "addItemToHashFieldByName", "addItemToSetByName" >>]

Constructs(c, call, memberNodeID) ==
  \E time \in ClockReads(now) :
  \E uuid \in FreshIDs :
    LET next == createFromParent(call, memberNodeID, time, uuid)
    IN  /\ calls' = [calls EXCEPT ![c] = next]
        /\ now' = IF next.pc = "phase1" THEN time ELSE now
        /\ usedIDs' = IF next.pc = "phase1" THEN usedIDs \cup {next.resourceID} ELSE usedIDs

\* Lines 40-50: createResource is called and runs to its first await.
StartCreate(c, resourceType, resourceAttributes, originUserID, parentNodeID) ==
  /\ calls[c].pc = "idle"
  /\ LET call == [NoCall EXCEPT !.op = "create", !.resourceType = resourceType,
                                !.originUserID = originUserID,
                                !.sent = resourceAttributes,
                                !.memberNodeID = parentNodeID]
     IN  IF ~ArgumentsAreValid(resourceType, originUserID)
         THEN /\ calls' = [calls EXCEPT ![c] = Fail(call, "invalid-argument")]
              /\ UNCHANGED << now, usedIDs >>
         ELSE IF ~datastore
         THEN /\ calls' = [calls EXCEPT ![c] = Fail(call, "undefined-context")]
              /\ UNCHANGED << now, usedIDs >>
         ELSE IF resourceRelationshipDatastore /\ parentNodeID = Undefined
         THEN /\ calls' = [calls EXCEPT ![c] =
                             [call EXCEPT !.pc = "parent", !.io.read = "pending",
                                          !.issued = << "retrieveObjectOfRelationshipWithSubject" >>]]
              /\ UNCHANGED << now, usedIDs >>
         ELSE Constructs(c, call, parentNodeID)
  /\ UNCHANGED << datastore, resourceRelationshipDatastore, edges, records, index, result,
                  authz, walkVars, faults, lastWriter >>

\* Line 50: the read of the user's direct is-member objects answers.
ParentAnswers(c) ==
  /\ calls[c].pc = "parent"
  /\ calls[c].io.read = "pending"
  /\ Constructs(c, [calls[c] EXCEPT !.io.read = "none"],
                First(ListOf(retrieveObjectOfRelationshipWithSubject(calls[c].originUserID,
                                                                     IsMember))))
  /\ UNCHANGED << datastore, resourceRelationshipDatastore, edges, records, index, result,
                  authz, walkVars, faults, lastWriter >>

\* Mutant of BothWritten: the edges are written as soon as one of the two
\* writes has succeeded.
EitherWritten(io) == io.record = "ok" \/ io.index = "ok"

\* Lines 61-65: Promise.all([record write, type-index write]).then(...)
BothWritten(io) == io.record = "ok" /\ io.index = "ok"

\* Lines 65-73: what follows the two writes of the first phase.
afterRecordAndIndex(call) ==
  IF call.pc # "phase1" \/ ~BothWritten(call.io) THEN call
  ELSE IF ~resourceRelationshipDatastore THEN Return(call)
  ELSE [call EXCEPT !.pc = "phase2",
                    !.io.member = "pending",
                    !.io.authored = "pending",
                    !.issued = @ \o << "createRelationshipBetweenSubjectAndObject",
                                       "createRelationshipBetweenSubjectAndObject" >>]

\* Lines 68-73: what follows the two edge writes.
afterEdges(call) ==
  IF call.pc = "phase2" /\ call.io.member = "ok" /\ call.io.authored = "ok"
  THEN Return(call)
  ELSE call

\* Lines 62 and 246: an addItemToHashFieldByName lands.
RecordWriteLands(c) ==
  /\ calls[c].io.record = "pending"
  /\ records' = addItemToHashFieldByName(records, ItemKey(calls[c]), calls[c].fields)
  /\ lastWriter' = c
  /\ LET landed == [calls[c] EXCEPT !.io.record = "ok"]
     IN  calls' = [calls EXCEPT ![c] =
                     IF landed.op = "create" THEN afterRecordAndIndex(landed)
                     ELSE IF landed.pc = "writing" THEN Return(landed)
                     ELSE landed]
  /\ UNCHANGED << datastore, resourceRelationshipDatastore, edges, index, now, usedIDs,
                  result, authz, walkVars, faults >>

\* Line 63: the addItemToSetByName lands.
IndexWriteLands(c) ==
  /\ calls[c].io.index = "pending"
  /\ index' = addItemToSetByName(index, calls[c].resourceType, calls[c].resourceID)
  /\ calls' = [calls EXCEPT ![c] = afterRecordAndIndex([calls[c] EXCEPT !.io.index = "ok"])]
  /\ UNCHANGED << datastore, resourceRelationshipDatastore, edges, records, now, usedIDs,
                  result, authz, walkVars, faults, lastWriter >>

\* Line 69: the is-member edge write lands.
MemberEdgeLands(c) ==
  /\ calls[c].io.member = "pending"
  /\ edges' = createRelationshipBetweenSubjectAndObject(edges, calls[c].resourceID, IsMember,
                                                        calls[c].memberNodeID)
  /\ calls' = [calls EXCEPT ![c] = afterEdges([calls[c] EXCEPT !.io.member = "ok"])]
  /\ UNCHANGED << datastore, resourceRelationshipDatastore, records, index, now, usedIDs,
                  result, authz, walkVars, faults, lastWriter >>

\* Line 70: the is-authored edge write lands.
AuthoredEdgeLands(c) ==
  /\ calls[c].io.authored = "pending"
  /\ edges' = createRelationshipBetweenSubjectAndObject(edges, calls[c].resourceID,
                                                        IsAuthored, calls[c].originUserID)
  /\ calls' = [calls EXCEPT ![c] = afterEdges([calls[c] EXCEPT !.io.authored = "ok"])]
  /\ UNCHANGED << datastore, resourceRelationshipDatastore, records, index, now, usedIDs,
                  result, authz, walkVars, faults, lastWriter >>

\* Lines 103-112, 158-168, 213-224: removeResourceByID, retrieveResourceByID or
\* updatesResourceByID is called and runs to its first store call: with a
\* RelationshipStore the first read of the authorization check, without one
\* (the check allows at once) the existence check.
StartByID(c, op, resourceType, resourceID, resourceAttributes, originUserID) ==
  /\ calls[c].pc = "idle"
  /\ LET call == [NoCall EXCEPT !.op = op, !.resourceType = resourceType,
                                !.resourceID = resourceID,
                                !.originUserID = originUserID,
                                !.sent = resourceAttributes]
     IN  calls' = [calls EXCEPT ![c] =
           IF ~ArgumentsAreValid(resourceType, originUserID)
           THEN Fail(call, "invalid-argument")
           ELSE IF ~datastore THEN Fail(call, "undefined-context")
           ELSE IF resourceRelationshipDatastore
           THEN [call EXCEPT !.pc = "authorizing", !.io.read = "pending",
                             !.issued = << "retrieveObjectOfRelationshipWithSubject" >>]
           ELSE [call EXCEPT !.pc = "exists", !.io.read = "pending",
                             !.issued = << "existsAsync" >>]]
  /\ UNCHANGED << datastore, resourceRelationshipDatastore, edges, records, index, now,
                  usedIDs, result, authz, walkVars, faults, lastWriter >>

StartRemove(c, resourceType, resourceID, originUserID) ==
  StartByID(c, "remove", resourceType, resourceID, << >>, originUserID)

StartRetrieve(c, resourceType, resourceID, originUserID) ==
  StartByID(c, "retrieve", resourceType, resourceID, << >>, originUserID)

StartUpdate(c, resourceType, resourceID, resourceAttributes, originUserID) ==
  StartByID(c, "update", resourceType, resourceID, resourceAttributes, originUserID)

\* Lines 112-118, 168-174, 224-230: the authorization check has its answer.
Authorized(c) ==
  /\ calls[c].pc = "authorizing"
  /\ calls[c].io.read = "pending"
  /\ LET call == calls[c]
         allowed == IF call.op = "retrieve"
                    THEN verifyThatUserCanRetrieveResource(call.originUserID, call.resourceID)
                    ELSE verifyThatUserCanUpdateResource(call.originUserID, call.resourceID)
     IN  calls' = [calls EXCEPT ![c] =
           IF ~allowed THEN Fail([call EXCEPT !.io.read = "none"], "unauthorized-action")
           ELSE [call EXCEPT !.pc = "exists", !.issued = @ \o << "existsAsync" >>]]
  /\ UNCHANGED << datastore, resourceRelationshipDatastore, edges, records, index, now,
                  usedIDs, result, authz, walkVars, faults, lastWriter >>

\* Mutant of afterExists: remove issues the edge cleanup together with the
\* record deletion.
afterExistsCleaningAtOnce(call, resourceExists) ==
  IF ~resourceExists THEN Fail([call EXCEPT !.io.read = "none"], "undefined-context")
  ELSE IF call.op = "remove"
  THEN [call EXCEPT !.pc = "removing", !.io.read = "none", !.io.remove = "pending",
                    !.io.cleanup = "pending",
                    !.issued = @ \o << "removeItemByName", "removeAllRelationshipsToVector" >>]
  ELSE [call EXCEPT !.pc = "reading",
                    !.issued = @ \o << "retrieveAllItemsFromHashByName" >>]

\* Mutant of afterExists: remove issues the record deletion before it looks at
\* the answer of the existence check.
afterExistsRemovingFirst(call, resourceExists) ==
  IF call.op = "remove"
  THEN LET removing == [call EXCEPT !.pc = "removing", !.io.read = "none",
                                    !.io.remove = "pending",
                                    !.issued = @ \o << "removeItemByName" >>]
       IN  IF ~resourceExists THEN Fail(removing, "undefined-context") ELSE removing
  ELSE IF ~resourceExists THEN Fail([call EXCEPT !.io.read = "none"], "undefined-context")
  ELSE [call EXCEPT !.pc = "reading",
                    !.issued = @ \o << "retrieveAllItemsFromHashByName" >>]

\* Lines 118-124, 174-178, 230-234: what follows the existence check.
afterExists(call, resourceExists) ==
  IF ~resourceExists THEN Fail([call EXCEPT !.io.read = "none"], "undefined-context")
  ELSE IF call.op = "remove"
  THEN [call EXCEPT !.pc = "removing", !.io.read = "none", !.io.remove = "pending",
                    !.issued = @ \o << "removeItemByName" >>]
  ELSE [call EXCEPT !.pc = "reading",
                    !.issued = @ \o << "retrieveAllItemsFromHashByName" >>]

ExistsAnswers(c) ==
  /\ calls[c].pc = "exists"
  /\ calls[c].io.read = "pending"
  /\ calls' = [calls EXCEPT ![c] = afterExists(calls[c], existsAsync(records, ItemKey(calls[c])))]
  /\ UNCHANGED << datastore, resourceRelationshipDatastore, edges, records, index, now,
                  usedIDs, result, authz, walkVars, faults, lastWriter >>

\* Mutant of UpdateFields: the patch is written without the meta block.
UpdateFieldsWithoutMeta(resource, patch) == patch

\* Mutant of UpdateFields: the whole updated resource is written.
UpdateWholeResource(resource, patch) == resource

\* Line 246: Object.assign({}, { meta: $resource.meta }, resourceAttributes)
UpdateFields(resource, patch) == Assign([meta |-> resource["meta"]], patch)

\* Lines 236-244: the updated resource, from the stored fields and the patch.
UpdatedResource(stored, patch, originUserID, firstTime, secondTime) ==
  LET staleResourceAttributes ==
        Assign(stored,
               [meta |-> Assign([updatedISOTime |-> firstTime],
                                IF Has(stored, "meta") THEN stored["meta"] ELSE NoObject)])
      constructed == NucleusResourceModel(Assign(staleResourceAttributes, patch),
                                          originUserID, Undefined, secondTime, Undefined)
  IN  Assign(constructed,
             [meta |-> Assign(constructed["meta"], [updatedISOTime |-> secondTime])])

\* Lines 178-183 and 234-247: the stored fields are read; retrieve returns the
\* resource, update constructs the updated one and issues its write.
RecordAnswers(c) ==
  /\ calls[c].pc = "reading"
  /\ calls[c].io.read = "pending"
  /\ LET call == calls[c]
         stored == retrieveAllItemsFromHashByName(records, ItemKey(call))
     IN  IF call.op = "retrieve"
         THEN /\ calls' = [calls EXCEPT ![c] =
                   Return([call EXCEPT !.io.read = "none",
                                       !.resource = NucleusResourceModel(
                                          stored, call.originUserID, Undefined, now,
                                          Undefined)])]
              /\ now' = now
         ELSE \E firstTime \in ClockReads(now) :
              \E secondTime \in ClockReads(firstTime) :
                LET patch == StripReservedKeys(call.sent)
                    resource == UpdatedResource(stored, patch, call.originUserID,
                                                firstTime, secondTime)
                IN  /\ calls' = [calls EXCEPT ![c] =
                          [call EXCEPT !.pc = "writing",
                                       !.io.read = "none",
                                       !.io.record = "pending",
                                       !.resource = resource,
                                       !.fields = UpdateFields(resource, patch),
                                       !.issued = @ \o << "addItemToHashFieldByName" >>]]
                    /\ now' = secondTime
  /\ UNCHANGED << datastore, resourceRelationshipDatastore, edges, records, index, usedIDs,
                  result, authz, walkVars, faults, lastWriter >>

\* Lines 122-128: the removeItemByName lands; with a RelationshipStore the
\* edge cleanup is issued.
RecordRemoved(c) ==
  /\ calls[c].io.remove = "pending"
  /\ records' = removeItemByName(records, ItemKey(calls[c]))
  /\ LET landed == [calls[c] EXCEPT !.io.remove = "ok"]
     IN  calls' = [calls EXCEPT ![c] =
           IF landed.pc # "removing" THEN landed
           ELSE IF ~resourceRelationshipDatastore THEN Return(landed)
           ELSE [landed EXCEPT !.pc = "cleaning", !.io.cleanup = "pending",
                               !.issued = @ \o << "removeAllRelationshipsToVector" >>]]
  /\ UNCHANGED << datastore, resourceRelationshipDatastore, edges, index, now, usedIDs,
                  result, authz, walkVars, faults, lastWriter >>

\* Lines 128-130: the removeAllRelationshipsToVector lands.
CleanupLands(c) ==
  /\ calls[c].io.cleanup = "pending"
  /\ edges' = removeAllRelationshipsToVector(edges, calls[c].resourceID)
  /\ LET landed == [calls[c] EXCEPT !.io.cleanup = "ok"]
     IN  calls' = [calls EXCEPT ![c] =
           IF landed.pc = "cleaning" THEN Return(landed) ELSE landed]
  /\ UNCHANGED << datastore, resourceRelationshipDatastore, records, index, now, usedIDs,
                  result, authz, walkVars, faults, lastWriter >>

\* A store call of the call rejects and has written nothing.  The rejection is
\* what the call's promise rejects with: line 50 is outside the try block, and
\* the promise chains returned at lines 61, 122, 178 and 234 are not awaited
\* inside a try block, so no catch clause sees the rejection.
Rejects(c, storeCall) ==
  /\ faults < MaxFaults
  /\ calls[c].io[storeCall] = "pending"
  /\ faults' = faults + 1
  /\ LET failed == [calls[c] EXCEPT !.io[storeCall] = "failed"]
     IN  calls' = [calls EXCEPT ![c] =
           IF failed.pc = "done" THEN failed ELSE Fail(failed, "store-error")]
  /\ UNCHANGED << datastore, resourceRelationshipDatastore, edges, records, index, now,
                  usedIDs, result, authz, walkVars, lastWriter >>

ConcNext ==
  \E c \in Calls :
    \/ \E resourceType \in ResourceTypes, resourceAttributes \in ConcCreateAttributes,
          originUserID \in ConcUsers, parentNodeID \in ConcParentNodeIDs :
         StartCreate(c, resourceType, resourceAttributes, originUserID, parentNodeID)
    \/ \E resourceType \in ResourceTypes, resourceID \in ResourceIDs,
          originUserID \in ConcUsers :
         \/ StartRemove(c, resourceType, resourceID, originUserID)
         \/ StartRetrieve(c, resourceType, resourceID, originUserID)
         \/ \E resourceAttributes \in PatchAttributes :
              StartUpdate(c, resourceType, resourceID, resourceAttributes, originUserID)
    \/ ParentAnswers(c)
    \/ RecordWriteLands(c)
    \/ IndexWriteLands(c)
    \/ MemberEdgeLands(c)
    \/ AuthoredEdgeLands(c)
    \/ Authorized(c)
    \/ ExistsAnswers(c)
    \/ RecordAnswers(c)
    \/ RecordRemoved(c)
    \/ CleanupLands(c)
    \/ \E storeCall \in DOMAIN NoIO : Rejects(c, storeCall)

ConcSpec == ConcInit /\ [][ConcNext]_vars

-----------------------------------------------------------------------------
(* Claims about calls in flight together (ConcSpec) and about sequences of   *)
(* calls (Spec).                                                             *)

Done(c) == calls[c].pc = "done"

\* The store calls that write.
WriteCalls == { "addItemToHashFieldByName", "addItemToSetByName",
                "createRelationshipBetweenSubjectAndObject", "removeItemByName",
                "removeAllRelationshipsToVector" }

\* The call has issued no store call that writes.
IssuedNoWrite(call) ==
  /\ \A i \in DOMAIN call.issued : call.issued[i] \notin WriteCalls
  /\ \A storeCall \in DOMAIN NoIO \ {"read"} : call.io[storeCall] = "none"

\* The patch of an update call, as it is written.
PatchOf(c) == DeleteProperty(DeleteProperty(calls[c].sent, "ID"), "meta")

\* Both calls are updates of r1 with valid arguments, by users whom the
\* hierarchy allows to update it, with patches that share no field.
TwoDisjointUpdates ==
  /\ datastore
  /\ \A c \in Calls :
       /\ calls[c].op = "update"
       /\ calls[c].resourceID = "r1"
       /\ calls[c].originUserID \notin {"", NotAString}
       /\ \/ ~resourceRelationshipDatastore
          \/ \E a \in NonSystemAncestors("r1") :
               \/ a \in DirectParents(calls[c].originUserID)
               \/ a \in Descendants(FirstDirectParent(calls[c].originUserID))
  /\ DOMAIN PatchOf("c1") \cap DOMAIN PatchOf("c2") = {}

\* C11: when two authorised updates of the same existing resource with
\* disjoint patches have both completed, in whatever order their store calls
\* answered and with no store call rejected, both have succeeded and the meta
\* block stored is the one of the call whose write landed last.
C11_ConcurrentUpdates ==
  (TwoDisjointUpdates /\ faults = 0 /\ \A c \in Calls : Done(c))
    => /\ \A c \in Calls : calls[c].kind = "ok"
       /\ lastWriter \in Calls
       /\ records[generateItemKey("Dummy", "r1")]["meta"] = calls[lastWriter].resource["meta"]

\* C11's case: the two updates have completed with different meta blocks, and
\* the write that landed last is the one of the call that read the clock first.
C11_Witness ==
  /\ TwoDisjointUpdates
  /\ \A c \in Calls : Done(c) /\ calls[c].kind = "ok"
  /\ \E c \in Calls :
       calls[lastWriter].resource["meta"].updatedISOTime
         < calls[c].resource["meta"].updatedISOTime

\* C12: a create issues its two edge writes only after its record write and
\* its type-index write have both succeeded, also when store calls reject; a
\* create with a failed record or type-index write issues no edge write, and
\* no edge of a new resource is stored before both writes have succeeded.
C12_EdgesAfterRecordAndIndex ==
  \A c \in Calls :
    calls[c].op = "create"
      => /\ (calls[c].io.member # "none" \/ calls[c].io.authored # "none")
              => (calls[c].io.record = "ok" /\ calls[c].io.index = "ok")
         /\ (calls[c].io.record = "failed" \/ calls[c].io.index = "failed")
              => (calls[c].io.member = "none" /\ calls[c].io.authored = "none")
         /\ (calls[c].resourceID \in {"r2", "r3"}
               /\ \E e \in edges : e[1] = calls[c].resourceID)
              => (calls[c].io.record = "ok" /\ calls[c].io.index = "ok")

\* C12's case: with a RelationshipStore, the record write of a create has
\* landed and its type-index write has rejected.
C12_Witness ==
  \E c \in Calls :
    /\ calls[c].op = "create"
    /\ resourceRelationshipDatastore
    /\ calls[c].io.record = "ok"
    /\ calls[c].io.index = "failed"
    /\ Done(c)

\* C13: a create one of whose store calls has rejected fails with an
\* external-dependency error (the cause wrapped), never with the store's error.
C13_StoreFailureWrapped ==
  \A c \in Calls :
    (calls[c].op = "create" /\ \E storeCall \in DOMAIN NoIO : calls[c].io[storeCall] = "failed")
      => calls[c].kind = "external-dependency"

\* C14: a remove issues the edge cleanup only after the record deletion has
\* succeeded; the step in which the cleanup rejects ends the call with that
\* failure and writes nothing (the record stays deleted), and the call does
\* nothing after it (no restore, no retry).
C14_CleanupAfterDeletion ==
  [][ \A c \in Calls :
        calls'[c].op = "remove"
          => /\ calls'[c].io.cleanup # "none" => calls'[c].io.remove = "ok"
             /\ (calls[c].io.cleanup = "pending" /\ calls'[c].io.cleanup = "failed")
                  => /\ calls'[c].pc = "done"
                     /\ calls'[c].kind = "store-error"
                     /\ UNCHANGED << records, index, edges >>
                     /\ (\A d \in Calls \ {c} : calls[d].io.record = "none")
                          => generateItemKey(calls[c].resourceType, calls[c].resourceID)
                               \notin DOMAIN records'
             /\ calls[c].io.cleanup = "failed" => calls'[c] = calls[c] ]_vars

\* C14's case: the record deletion of a remove has landed and its edge cleanup
\* has rejected.
C14_Witness ==
  \E c \in Calls :
    /\ calls[c].op = "remove"
    /\ calls[c].io.remove = "ok"
    /\ calls[c].io.cleanup = "failed"
    /\ calls[c].kind = "store-error"
    /\ generateItemKey(calls[c].resourceType, calls[c].resourceID) \notin DOMAIN records

\* Both updates have succeeded and the stored record holds the value each of
\* them patched, for every field of its patch.
BothPatchesStored ==
  (TwoDisjointUpdates /\ \A c \in Calls : Done(c) /\ calls[c].kind = "ok")
    => \A c \in Calls :
         \A field \in DOMAIN PatchOf(c) :
            records[generateItemKey("Dummy", "r1")][field] = PatchOf(c)[field]

\* C15: the step in which the write of an update lands changes, in the stored
\* record, the meta field and the fields of the stripped patch and no other
\* field, and changes no other record; so when two updates with disjoint
\* patches have succeeded, the record holds the fields both patched.
C15_UpdateFrame ==
  [][ /\ \A c \in Calls :
           ( /\ calls[c].op = "update"
             /\ calls[c].io.record = "pending"
             /\ calls'[c].io.record = "ok" )
             => LET key == generateItemKey(calls[c].resourceType, calls[c].resourceID)
                    before == IF key \in DOMAIN records THEN records[key] ELSE << >>
                    after == records'[key]
                    written == DOMAIN PatchOf(c) \cup {"meta"}
                IN  /\ DOMAIN after = DOMAIN before \cup written
                    /\ \A field \in DOMAIN before \ written : after[field] = before[field]
                    /\ \A field \in DOMAIN PatchOf(c) : after[field] = PatchOf(c)[field]
                    /\ \A other \in DOMAIN records \ {key} :
                         other \in DOMAIN records' /\ records'[other] = records[other]
                    /\ UNCHANGED << index, edges >>
      /\ BothPatchesStored' ]_vars

\* C15's case: two updates in flight together, one patching name and one
\* patching color, have succeeded, each write having landed after the other
\* call had read the stored fields.
C15_Witness ==
  /\ TwoDisjointUpdates
  /\ \A c \in Calls : Done(c) /\ calls[c].kind = "ok"
  /\ \E c, d \in Calls :
       /\ DOMAIN PatchOf(c) = {"name"}
       /\ DOMAIN PatchOf(d) = {"color"}
       /\ calls[c].resource["color"] # PatchOf(d)["color"]
       /\ calls[d].resource["name"] # PatchOf(c)["name"]

\* C16: every subject has at most one direct is-member object, after any
\* sequence of create, update and remove calls on a hierarchy that started so.
C16_AtMostOneParent ==
  \A p, q \in MemberPairs : p[1] = q[1] => p = q

\* The errors that a call throws before it writes.
EarlyFailures == {"invalid-argument", "unauthorized-action", "undefined-context"}

\* C18: a call that has failed with invalid-argument, unauthorized-action or
\* undefined-context has issued no store call that writes, and the step in
\* which it failed left the records, the type index and the edges as they
\* were; with invalid-argument it has issued no store call at all.
C18_FailedCallWroteNothing ==
  [][ \A c \in Calls :
        (calls'[c].pc = "done" /\ calls'[c].kind \in EarlyFailures)
          => /\ IssuedNoWrite(calls'[c])
             /\ calls'[c] # calls[c] => UNCHANGED << records, index, edges >>
             /\ calls'[c].kind = "invalid-argument" => calls'[c].issued = << >> ]_vars

\* C18's case: a call has failed with undefined-context after the hierarchy
\* allowed it and the existence check found no record.
C18_Witness ==
  \E c \in Calls :
    /\ Done(c)
    /\ calls[c].kind = "undefined-context"
    /\ calls[c].issued = << "retrieveObjectOfRelationshipWithSubject", "existsAsync" >>

\* C19: when a remove and an update of the same resource have both passed
\* authorization and have both completed, the remove successfully, and no
\* store call is in flight, no record is stored under the resource's key.
C19_RemovedStaysRemoved ==
  \A c, d \in Calls :
    ( /\ calls[c].op = "remove" /\ Done(c) /\ calls[c].kind = "ok"
      /\ calls[d].op = "update" /\ Done(d)
      /\ calls[d].kind \notin {"invalid-argument", "unauthorized-action"}
      /\ calls[d].resourceID = calls[c].resourceID
      /\ \A e \in Calls : \A storeCall \in DOMAIN NoIO : calls[e].io[storeCall] # "pending" )
      => generateItemKey(calls[c].resourceType, calls[c].resourceID) \notin DOMAIN records

\* C21: a remove never writes the type index; after a successful remove the
\* ID is still in the index set of its type while no record is stored under
\* its key (an indexed ID without a record, with no store call rejecting).
C21_RemoveKeepsIndex ==
  [][ result'.op = "remove"
        => /\ index' = index
           /\ result'.kind = "ok"
                => /\ result'.resourceType \in DOMAIN index'
                   /\ result'.resourceID \in index'[result'.resourceType]
                   /\ generateItemKey(result'.resourceType, result'.resourceID)
                        \notin DOMAIN records' ]_vars

\* C21's case: a remove has succeeded, the ID is in the type index and no
\* record is stored under its key.
C21_Witness ==
  /\ result.op = "remove"
  /\ result.kind = "ok"
  /\ result.resourceID \in index[result.resourceType]
  /\ generateItemKey(result.resourceType, result.resourceID) \notin DOMAIN records

=============================================================================
